---- MODULE Spec2Model ----
(***************************************************************************)
(* Model of scripts/import_issues_from_csv.py: the bulk importer that      *)
(* ensures a milestone and labels, creates one remote issue per CSV row,   *)
(* and then links the created issues (dependencies, parent, subtasks).     *)
(*                                                                         *)
(* A Python string that is used as a body is modelled as the sequence of   *)
(* its lines (the string is "\n".join(lines)); StrCat is string            *)
(* concatenation in that representation.  A CSV field that the code        *)
(* splits on separators (Dependencies, Labels) is modelled as the sequence *)
(* of its stripped raw tokens, an empty token being "".  A Python dict is  *)
(* a function whose DOMAIN is the set of keys; parent_to_children, whose   *)
(* iteration order matters, is a sequence of [parent, children] records in *)
(* insertion order.  Remote issue, milestone and label collections are     *)
(* sequences; an issue's or milestone's number is its index.               *)
(***************************************************************************)
EXTENDS Integers, Sequences, FiniteSets, TLC

VARIABLES
    rows,               \* parse_csv result (immutable after load)
    milestone,          \* args.milestone
    dry_run,            \* args.dry_run
    milestones,         \* remote: sequence of milestone titles
    labels,             \* remote: sequence of label names
    issues,             \* remote: sequence of [title, body, labels, milestone, src]
    pc,                 \* position of main()
    milestone_number,   \* 0 models None
    existing,           \* list_labels: names accumulated so far
    page,               \* list_labels: page counter
    to_create,          \* ensure_labels: names still to be posted
    id_to_issue,        \* dict local id -> remote number (or placeholder)
    parent_to_children, \* ordered dict parent id -> list of child ids
    deps_map,           \* dict local id -> list of dependency ids
    idx,                \* loop index of the current for-loop
    target,             \* issue_number / parent_num of the pending update
    current_body,       \* body read by the pending read-modify-write
    extra,              \* text the pending update appends
    log,                \* history: the HTTP requests issued, in order
    extCount            \* history: number of external body edits so far

vars == <<rows, milestone, dry_run, milestones, labels, issues, pc,
          milestone_number, existing, page, to_create, id_to_issue,
          parent_to_children, deps_map, idx, target, current_body, extra,
          log, extCount>>

(***************************************************************************)
(* Bounds of the exploration.                                              *)
(***************************************************************************)
MaxRows == 3
MaxExt == 1

(***************************************************************************)
(* Program constants.                                                      *)
(***************************************************************************)
PerPage == 100
LabelsPerPage == 100

(***************************************************************************)
(* Generic helpers.                                                        *)
(***************************************************************************)
Range(s) == {s[k] : k \in DOMAIN s}

EmptyDict == [k \in {} |-> 0]

DictPut(d, k, v) == [q \in DOMAIN d \cup {k} |-> IF q = k THEN v ELSE d[q]]

\* "\n".join(lines) + "\n".join(more), in the line representation
StrCat(a, b) ==
    SubSeq(a, 1, Len(a) - 1) \o <<a[Len(a)] \o b[1]>> \o Tail(b)

\* the first n elements of a listing (one page of per_page = n)
FirstPage(s, n) == SubSeq(s, 1, IF Len(s) < n THEN Len(s) ELSE n)

\* page p (1-based) of a listing with n elements per page
PageOf(s, p, n) ==
    SubSeq(s, (p - 1) * n + 1, IF Len(s) < p * n THEN Len(s) ELSE p * n)

\* index of the first element of s equal to v, 0 when there is none
FirstIndex(s, v) ==
    IF \E k \in DOMAIN s : s[k] = v
    THEN CHOOSE k \in DOMAIN s : s[k] = v /\ \A m \in 1..(k - 1) : s[m] # v
    ELSE 0

NonEmpty(s) == SelectSeq(s, LAMBDA x : x # "")

(***************************************************************************)
(* Per-row computations of the first pass.                                 *)
(***************************************************************************)
\* title = r.get("Title") or "(no title)"
ApiTitle(r) == IF r.Title # "" THEN r.Title ELSE "(no title)"

Header(r, ms) ==
    (IF r.Type # "" THEN <<"**Type:** " \o r.Type>> ELSE <<>>) \o
    (IF r.Priority # "" THEN <<"**Priority:** " \o r.Priority>> ELSE <<>>) \o
    (IF r.Estimate # "" THEN <<"**Estimate:** " \o r.Estimate \o " pts">> ELSE <<>>) \o
    (IF ms # "" THEN <<"**Milestone:** " \o ms>> ELSE <<>>)

\* body = "\n".join(header) + "\n\n" + desc, or desc alone
Body(r, ms) ==
    IF Header(r, ms) # <<>>
    THEN StrCat(StrCat(Header(r, ms), <<"", "", "">>), <<r.Description>>)
    ELSE <<r.Description>>

RowLabels(r) ==
    (IF r.Type # "" THEN <<r.Type>> ELSE <<>>) \o
    (IF r.Priority # "" THEN <<r.Priority>> ELSE <<>>) \o
    NonEmpty(r.Labels)

\* deps = [x.strip() for x in re.split(...) if x.strip()]
Deps(r) == NonEmpty(r.Dependencies)

\* the set all_labels collected over the rows
AllLabels(rs) ==
    UNION {Range(NonEmpty(rs[k].Labels)) \cup
           (IF rs[k].Type # "" THEN {rs[k].Type} ELSE {}) \cup
           (IF rs[k].Priority # "" THEN {rs[k].Priority} ELSE {})
           : k \in DOMAIN rs}

\* parent_to_children[parent].append(iid) on the ordered dict
OdAppend(od, k, v) ==
    IF \E n \in DOMAIN od : od[n].parent = k
    THEN [n \in DOMAIN od |->
            IF od[n].parent = k
            THEN [od[n] EXCEPT !.children = Append(@, v)]
            ELSE od[n]]
    ELSE Append(od, [parent |-> k, children |-> <<v>>])

DepsMapAfter(dm, r) ==
    IF Deps(r) # <<>> THEN DictPut(dm, r.ID, Deps(r)) ELSE dm

ParentsAfter(od, r) ==
    IF r.ParentID # "" THEN OdAppend(od, r.ParentID, r.ID) ELSE od

Placeholder(iid) == "DRY-" \o iid

(***************************************************************************)
(* Per-row computations of the linking passes.                             *)
(***************************************************************************)
\* id_to_issue.get(k): 0 models None
DictGet(d, k) == IF k \in DOMAIN d THEN d[k] ELSE 0

IssueRefs(ds, ids) ==
    LET res == SelectSeq(ds, LAMBDA d : d \in DOMAIN ids)
    IN  [k \in DOMAIN res |-> "#" \o ToString(ids[res[k]])]

DepsBlock(refs) ==
    IF refs # <<>>
    THEN <<"", "", "### Dependencies">> \o
         [k \in DOMAIN refs |-> "- [ ] Blocked by " \o refs[k]]
    ELSE <<"">>

ParentLine(parent, ids) ==
    IF parent # "" /\ parent \in DOMAIN ids
    THEN <<"", "", "**Parent:** #" \o ToString(ids[parent])>>
    ELSE <<"">>

\* extra as built by lines 169-178 for a row with local id r.ID
LinkExtra(r, dm, ids) ==
    LET deps == IF r.ID \in DOMAIN dm THEN dm[r.ID] ELSE <<>>
    IN  StrCat(DepsBlock(IssueRefs(deps, ids)), ParentLine(r.ParentID, ids))

\* ct = next((r["Title"] for r in rows if r["ID"] == child_id), f"Issue {n}")
ChildTitle(rs, child_id, child_num) ==
    IF \E k \in DOMAIN rs : rs[k].ID = child_id
    THEN rs[FirstIndex([k \in DOMAIN rs |-> rs[k].ID], child_id)].Title
    ELSE "Issue " \o ToString(child_num)

SubtaskLine(rs, ids, child_id) ==
    "- [ ] #" \o ToString(DictGet(ids, child_id)) \o " -- " \o
    ChildTitle(rs, child_id, DictGet(ids, child_id))

\* "\n".join(lines) of lines 194-198
SubtasksBlock(rs, ids, children) ==
    <<"", "", "### Subtasks">> \o
    [k \in DOMAIN children |-> SubtaskLine(rs, ids, children[k])]

\* variant: the update sends only the new content
NewBodyReplace(remote_body, read_body, appended) == appended

\* variant: the update appends to the body stored at the time of the write
NewBodyReread(remote_body, read_body, appended) == StrCat(remote_body, appended)

\* body=current_body + extra (lines 184 and 199)
NewBody(remote_body, read_body, appended) == StrCat(read_body, appended)

(***************************************************************************)
(* Control flow of main() between the loops.                               *)
(***************************************************************************)
\* lines 100-109: taxonomy is ensured only when not in dry-run mode
AfterLoadPc(dry, ms) ==
    IF dry THEN "create" ELSE IF ms # "" THEN "ms_list" ELSE "labels_list"

\* variant: a real run starts linking right after the first created issue
AfterCreatePcEarlyLink(i, n, dry) ==
    IF dry THEN (IF i < n THEN "create" ELSE "done") ELSE "link"

\* lines 116 and 159-164: the creation loop runs over all rows, then
\* dry-run returns and a real run enters the second pass
AfterCreatePc(i, n, dry) ==
    IF i < n THEN "create" ELSE IF dry THEN "done" ELSE "link"

\* lines 164 and 187: the second pass runs over all rows, then the parents
AfterLinkPc(i, n, od) ==
    IF i < n THEN "link" ELSE IF Len(od) > 0 THEN "sub" ELSE "done"

AfterSubPc(i, n) == IF i < n THEN "sub" ELSE "done"

NextIdx(i, n) == IF i < n THEN i + 1 ELSE 1

\* variant: the try/except around the label POST is missing
FailPcAlwaysAbort(op, cont) == "aborted"

\* variant: every request is wrapped in a try/except that goes on
FailPcNeverAbort(op, cont) == cont

\* raise_for_status(): uncaught everywhere except inside the try of
\* ensure_labels (lines 46-51), where the loop goes on
FailPc(op, cont) == IF op = "create_label" THEN cont ELSE "aborted"

\* one HTTP request: operation, outcome, name or pass, number, body payload
Req(op, ok, name, num) ==
    [op |-> op, ok |-> ok, name |-> name, num |-> num, body |-> <<>>]

(***************************************************************************)
(* Initial states: the inputs and the remote state before the run.         *)
(***************************************************************************)
IdOf(i) == "P" \o ToString(i)

Fill(prefix, n) == [k \in 1..n |-> prefix \o ToString(k)]

\* rows that vary in identifier, parent and dependencies
LinkRowChoices(i) ==
    [ID : {"", IdOf(i)}, Title : {"T" \o ToString(i)}, Type : {"task"},
     Priority : {""}, Estimate : {""}, ParentID : {"", "P1"},
     Description : {"D" \o ToString(i)},
     Dependencies : {<<>>, <<"P2", "", "PX", "P1">>}, Labels : {<<>>}]

\* rows that vary in the fields that drive the taxonomy and the body
TaxRowChoices ==
    [ID : {"P1"}, Title : {"", "T1"}, Type : {"", "bug"},
     Priority : {"", "P1"}, Estimate : {"3"}, ParentID : {""},
     Description : {"Fix it"}, Dependencies : {<<>>},
     Labels : {<<>>, <<"ui", "", "bug">>}]

InitLocals ==
    /\ pc = "start"
    /\ milestone_number = 0
    /\ existing = {}
    /\ page = 1
    /\ to_create = {}
    /\ id_to_issue = EmptyDict
    /\ parent_to_children = <<>>
    /\ deps_map = EmptyDict
    /\ idx = 1
    /\ target = 0
    /\ current_body = <<"">>
    /\ extra = <<"">>
    /\ issues = <<>>
    /\ log = <<>>
    /\ extCount = 0

InitRows ==
    /\ \E n \in 1..MaxRows :
         rows \in {rs \in [1..n -> UNION {LinkRowChoices(i) : i \in 1..n}] :
                     \A i \in 1..n : rs[i] \in LinkRowChoices(i)}
    /\ milestone = "Sprint 1"
    /\ dry_run \in BOOLEAN
    /\ milestones = <<"Sprint 1">>
    /\ labels = <<"task">>
    /\ InitLocals

InitTax ==
    /\ \E r \in TaxRowChoices : rows = <<r>>
    /\ milestone \in {"", "Sprint 1"}
    /\ dry_run \in BOOLEAN
    /\ \E n \in {0, PerPage - 1, PerPage}, present \in BOOLEAN :
         milestones = Fill("m", n) \o (IF present THEN <<"Sprint 1">> ELSE <<>>)
    /\ \E n \in {0, LabelsPerPage}, present \in BOOLEAN :
         labels = Fill("l", n) \o (IF present THEN <<"bug">> ELSE <<>>)
    /\ InitLocals

Init == InitRows \/ InitTax

(***************************************************************************)
(* Actions.                                                                *)
(***************************************************************************)
\* lines 88-109: load, collect labels, choose the first remote phase
Start ==
    /\ pc = "start"
    /\ pc' = AfterLoadPc(dry_run, milestone)
    /\ UNCHANGED <<rows, milestone, dry_run, milestones, labels, issues,
                   milestone_number, existing, page, to_create, id_to_issue,
                   parent_to_children, deps_map, idx, target, current_body,
                   extra, log, extCount>>

\* ensure_milestone, lines 17-21: one GET of the first page, then a scan
MilestoneList ==
    /\ pc = "ms_list"
    /\ \E ok \in BOOLEAN :
         /\ log' = Append(log, Req("list_milestones", ok, "", 0))
         /\ IF ok
            THEN LET k == FirstIndex(FirstPage(milestones, PerPage), milestone)
                 IN  /\ milestone_number' = k
                     /\ pc' = IF k # 0 THEN "labels_list" ELSE "ms_create"
            ELSE /\ pc' = FailPc("list_milestones", "ms_create")
                 /\ UNCHANGED milestone_number
    /\ UNCHANGED <<rows, milestone, dry_run, milestones, labels, issues,
                   existing, page, to_create, id_to_issue, parent_to_children,
                   deps_map, idx, target, current_body, extra, extCount>>

\* ensure_milestone, lines 22-26: POST of a new open milestone
MilestoneCreate ==
    /\ pc = "ms_create"
    /\ \E ok \in BOOLEAN :
         /\ log' = Append(log, Req("create_milestone", ok, milestone, 0))
         /\ IF ok
            THEN /\ milestones' = Append(milestones, milestone)
                 /\ milestone_number' = Len(milestones) + 1
                 /\ pc' = "labels_list"
            ELSE /\ pc' = FailPc("create_milestone", "labels_list")
                 /\ UNCHANGED <<milestones, milestone_number>>
    /\ UNCHANGED <<rows, milestone, dry_run, labels, issues, existing, page,
                   to_create, id_to_issue, parent_to_children, deps_map, idx,
                   target, current_body, extra, extCount>>

\* to_create = [w for w in wanted if w and w not in existing]
ToCreate(wanted, have) == {w \in wanted : w # "" /\ w \notin have}

AfterLabelsPc(remaining) == IF remaining = {} THEN "create" ELSE "labels_create"

\* list_labels, lines 31-38: one page per step until an empty page
LabelsListPage ==
    /\ pc = "labels_list"
    /\ \E ok \in BOOLEAN :
         /\ log' = Append(log, Req("list_labels", ok, "", page))
         /\ IF ok
            THEN LET data == PageOf(labels, page, LabelsPerPage)
                 IN  IF data = <<>>
                     THEN /\ to_create' = ToCreate(AllLabels(rows), existing)
                          /\ pc' = AfterLabelsPc(to_create')
                          /\ UNCHANGED <<existing, page>>
                     ELSE /\ existing' = existing \cup Range(data)
                          /\ page' = page + 1
                          /\ UNCHANGED <<to_create, pc>>
            ELSE /\ pc' = FailPc("list_labels", "labels_list")
                 /\ UNCHANGED <<existing, page, to_create>>
    /\ UNCHANGED <<rows, milestone, dry_run, milestones, labels, issues,
                   milestone_number, id_to_issue, parent_to_children, deps_map,
                   idx, target, current_body, extra, extCount>>

\* ensure_labels, lines 44-51: POST each missing label, in set order
LabelCreate ==
    /\ pc = "labels_create"
    /\ \E name \in to_create, ok \in BOOLEAN :
         /\ log' = Append(log, Req("create_label", ok, name, 0))
         /\ to_create' = to_create \ {name}
         /\ labels' = IF ok THEN Append(labels, name) ELSE labels
         /\ pc' = IF ok
                  THEN AfterLabelsPc(to_create')
                  ELSE FailPc("create_label", AfterLabelsPc(to_create'))
    /\ UNCHANGED <<rows, milestone, dry_run, milestones, issues,
                   milestone_number, existing, page, id_to_issue,
                   parent_to_children, deps_map, idx, target, current_body,
                   extra, extCount>>

\* first pass, lines 116-157: one row per step
CreateIssue ==
    /\ pc = "create"
    /\ LET r == rows[idx]
       IN  /\ deps_map' = DepsMapAfter(deps_map, r)
           /\ parent_to_children' = ParentsAfter(parent_to_children, r)
           /\ IF dry_run
              THEN /\ id_to_issue' = DictPut(id_to_issue, r.ID, Placeholder(r.ID))
                   /\ pc' = AfterCreatePc(idx, Len(rows), dry_run)
                   /\ idx' = NextIdx(idx, Len(rows))
                   /\ UNCHANGED <<issues, log>>
              ELSE \E ok \in BOOLEAN :
                   /\ log' = Append(log, Req("create_issue", ok, r.ID, idx))
                   /\ IF ok
                      THEN /\ issues' = Append(issues,
                                [title |-> ApiTitle(r),
                                 body |-> Body(r, milestone),
                                 labels |-> RowLabels(r),
                                 milestone |-> milestone_number,
                                 src |-> idx])
                           /\ id_to_issue' = DictPut(id_to_issue, r.ID, Len(issues) + 1)
                           /\ pc' = AfterCreatePc(idx, Len(rows), dry_run)
                           /\ idx' = NextIdx(idx, Len(rows))
                      ELSE /\ pc' = FailPc("create_issue", "create")
                           /\ UNCHANGED <<issues, id_to_issue, idx>>
    /\ UNCHANGED <<rows, milestone, dry_run, milestones, labels,
                   milestone_number, existing, page, to_create, target,
                   current_body, extra, extCount>>

\* second pass, lines 164-183: compute extra for one row and read the body
LinkRow ==
    /\ pc = "link"
    /\ LET r == rows[idx]
           issue_number == DictGet(id_to_issue, r.ID)
           ex == LinkExtra(r, deps_map, id_to_issue)
       IN  IF issue_number = 0 \/ ex = <<"">>
           THEN /\ pc' = AfterLinkPc(idx, Len(rows), parent_to_children)
                /\ idx' = NextIdx(idx, Len(rows))
                /\ UNCHANGED <<target, current_body, extra, log>>
           ELSE \E ok \in BOOLEAN :
                /\ log' = Append(log, Req("get_issue", ok, "link", issue_number))
                /\ IF ok
                   THEN /\ target' = issue_number
                        /\ current_body' = issues[issue_number].body
                        /\ extra' = ex
                        /\ pc' = "link_put"
                   ELSE /\ pc' = FailPc("get_issue", "link_put")
                        /\ UNCHANGED <<target, current_body, extra>>
                /\ UNCHANGED idx
    /\ UNCHANGED <<rows, milestone, dry_run, milestones, labels, issues,
                   milestone_number, existing, page, to_create, id_to_issue,
                   parent_to_children, deps_map, extCount>>

\* second pass, line 184: write current_body + extra back
LinkPut ==
    /\ pc = "link_put"
    /\ \E ok \in BOOLEAN :
         /\ log' = Append(log, [Req("update_issue", ok, "link", target) EXCEPT
                                  !.body = NewBody(issues[target].body,
                                                   current_body, extra)])
         /\ IF ok
            THEN /\ issues' = [issues EXCEPT ![target].body =
                                  log'[Len(log')].body]
                 /\ pc' = AfterLinkPc(idx, Len(rows), parent_to_children)
                 /\ idx' = NextIdx(idx, Len(rows))
            ELSE /\ pc' = FailPc("update_issue", "link")
                 /\ UNCHANGED <<issues, idx>>
    /\ UNCHANGED <<rows, milestone, dry_run, milestones, labels,
                   milestone_number, existing, page, to_create, id_to_issue,
                   parent_to_children, deps_map, target, current_body, extra,
                   extCount>>

\* parent pass, lines 187-198: read one parent's body, build the block
SubRow ==
    /\ pc = "sub"
    /\ LET e == parent_to_children[idx]
           parent_num == DictGet(id_to_issue, e.parent)
       IN  IF parent_num = 0
           THEN /\ pc' = AfterSubPc(idx, Len(parent_to_children))
                /\ idx' = NextIdx(idx, Len(parent_to_children))
                /\ UNCHANGED <<target, current_body, extra, log>>
           ELSE \E ok \in BOOLEAN :
                /\ log' = Append(log, Req("get_issue", ok, "sub", parent_num))
                /\ IF ok
                   THEN /\ target' = parent_num
                        /\ current_body' = issues[parent_num].body
                        /\ extra' = SubtasksBlock(rows, id_to_issue, e.children)
                        /\ pc' = "sub_put"
                   ELSE /\ pc' = FailPc("get_issue", "sub_put")
                        /\ UNCHANGED <<target, current_body, extra>>
                /\ UNCHANGED idx
    /\ UNCHANGED <<rows, milestone, dry_run, milestones, labels, issues,
                   milestone_number, existing, page, to_create, id_to_issue,
                   parent_to_children, deps_map, extCount>>

\* parent pass, line 199: write current_body + subtasks back
SubPut ==
    /\ pc = "sub_put"
    /\ \E ok \in BOOLEAN :
         /\ log' = Append(log, [Req("update_issue", ok, "sub", target) EXCEPT
                                  !.body = NewBody(issues[target].body,
                                                   current_body, extra)])
         /\ IF ok
            THEN /\ issues' = [issues EXCEPT ![target].body =
                                  log'[Len(log')].body]
                 /\ pc' = AfterSubPc(idx, Len(parent_to_children))
                 /\ idx' = NextIdx(idx, Len(parent_to_children))
            ELSE /\ pc' = FailPc("update_issue", "sub")
                 /\ UNCHANGED <<issues, idx>>
    /\ UNCHANGED <<rows, milestone, dry_run, milestones, labels,
                   milestone_number, existing, page, to_create, id_to_issue,
                   parent_to_children, deps_map, target, current_body, extra,
                   extCount>>

LinkPcs == {"link", "link_put", "sub", "sub_put"}

\* the issue the linker is about to read (0: none) or has read and not yet
\* written back
Handled ==
    IF pc \in {"link_put", "sub_put"} THEN target
    ELSE IF pc = "link" THEN DictGet(id_to_issue, rows[idx].ID)
    ELSE DictGet(id_to_issue, parent_to_children[idx].parent)

\* another client of the remote service appends a line to the body of the
\* issue the linker is handling, before the read or between the read and
\* the write (the linker holds no lock, lines 181-184 and 190-199)
ExternalEdit ==
    /\ pc \in LinkPcs
    /\ extCount < MaxExt
    /\ Handled # 0
    /\ issues' = [issues EXCEPT ![Handled].body =
                     StrCat(@, <<"", "EXT" \o ToString(extCount + 1)>>)]
    /\ extCount' = extCount + 1
    /\ UNCHANGED <<rows, milestone, dry_run, milestones, labels, pc,
                   milestone_number, existing, page, to_create, id_to_issue,
                   parent_to_children, deps_map, idx, target, current_body,
                   extra, log>>

Next ==
    \/ Start
    \/ MilestoneList
    \/ MilestoneCreate
    \/ LabelsListPage
    \/ LabelCreate
    \/ CreateIssue
    \/ LinkRow
    \/ LinkPut
    \/ SubRow
    \/ SubPut
    \/ ExternalEdit

Spec == Init /\ [][Next]_vars

(***************************************************************************)
(* Vocabulary of the properties.                                           *)
(***************************************************************************)
Ops(op) == {k \in DOMAIN log : log[k].op = op}

OkOps(op) == {k \in Ops(op) : log[k].ok}

\* the successful updates of issue n made by pass p ("link" or "sub")
Writes(p, n) ==
    {k \in OkOps("update_issue") : log[k].name = p /\ log[k].num = n}

Finished == pc = "done" /\ ~dry_run /\ extCount = 0

\* the issue that was created from row i
ItemOf(i) == CHOOSE n \in DOMAIN issues : issues[n].src = i

IsPrefix(a, b) == Len(a) <= Len(b) /\ SubSeq(b, 1, Len(a)) = a

Count(s, v) == Cardinality({k \in DOMAIN s : s[k] = v})

\* the dependencies of row i that are keys of the Local-to-Remote Map
Resolved(i) == SelectSeq(Deps(rows[i]), LAMBDA d : d \in DOMAIN id_to_issue)

BlockedLines ==
    {"- [ ] Blocked by #" \o ToString(n) : n \in 0..Len(issues)}

\* the rows that name p as their ParentID, in file order
ChildrenOf(p) ==
    SelectSeq([k \in DOMAIN rows |-> k], LAMBDA k : rows[k].ParentID = p)

ParentIds == {rows[k].ParentID : k \in DOMAIN rows} \ {""}

SubtaskLines ==
    {"- [ ] #" \o ToString(n) \o " -- " \o t :
        n \in 0..Len(issues),
        t \in {rows[k].Title : k \in DOMAIN rows} \cup
              {"Issue " \o ToString(m) : m \in 0..Len(issues)}}

\* the annotation of row i built from that row's own fields
OwnExtra(i) ==
    StrCat(DepsBlock(IssueRefs(Deps(rows[i]), id_to_issue)),
           ParentLine(rows[i].ParentID, id_to_issue))

Referenced ==
    ParentIds \cup UNION {Range(Deps(rows[k])) : k \in DOMAIN rows}

ReferencedIdsUnique ==
    \A id \in Referenced :
        id # "" /\ Cardinality({k \in DOMAIN rows : rows[k].ID = id}) <= 1

PhaseOf(op) ==
    IF op \in {"list_milestones", "create_milestone", "list_labels", "create_label"}
    THEN 1
    ELSE IF op = "create_issue" THEN 2 ELSE 3

ExtLines == {"EXT" \o ToString(k) : k \in 1..MaxExt}

(***************************************************************************)
(* C1: in dry-run mode no remote request is ever issued, the linking       *)
(* phases are never entered, and at the end every row has a placeholder in *)
(* the Local-to-Remote Map that differs from the placeholder of every      *)
(* other row.                                                              *)
(***************************************************************************)
C1_DryRunDistinctPlaceholders ==
    dry_run =>
        /\ log = <<>>
        /\ issues = <<>>
        /\ pc \notin LinkPcs
        /\ pc = "done" =>
             /\ \A i \in DOMAIN rows : rows[i].ID \in DOMAIN id_to_issue
             /\ \A i, j \in DOMAIN rows :
                    i # j => id_to_issue[rows[i].ID] # id_to_issue[rows[j].ID]

(***************************************************************************)
(* C2: when the remote already holds a milestone with the requested title, *)
(* wherever it is in the listing, ensure_milestone returns its number and  *)
(* issues no create-milestone request; the remote never holds two          *)
(* milestones with that title.                                             *)
(***************************************************************************)
C2_EnsureMilestoneIdempotent ==
    /\ pc = "ms_create" => milestone \notin Range(milestones)
    /\ Count(milestones, milestone) <= 1
    /\ milestone_number # 0 => milestones[milestone_number] = milestone

(***************************************************************************)
(* C3: in a real run the requests of the taxonomy phase precede those of   *)
(* the creation phase, which precede those of the linker; when the linker  *)
(* runs the Local-to-Remote Map has an entry for every row and one issue   *)
(* per row exists; the linker never changes the map.                       *)
(***************************************************************************)
C3_Ordered ==
    ~dry_run =>
        /\ \A a \in 1..(Len(log) - 1) :
               PhaseOf(log[a].op) <= PhaseOf(log[a + 1].op)
        /\ pc \in LinkPcs =>
               /\ \A i \in DOMAIN rows : rows[i].ID \in DOMAIN id_to_issue
               /\ Len(issues) = Len(rows)
               /\ Cardinality(OkOps("create_issue")) = Len(rows)

C3_MapReadOnly == pc \in LinkPcs => UNCHANGED id_to_issue

C3_PhasesSequential == []C3_Ordered /\ [][C3_MapReadOnly]_vars

C3_Witness ==
    /\ pc = "sub_put"
    /\ Len(rows) >= 2
    /\ OkOps("update_issue") # {}
    /\ OkOps("create_label") # {} \/ OkOps("list_labels") # {}

(***************************************************************************)
(* C4: at the end of a real run the Blocked-by entries in the body of the  *)
(* issue created from a row are, in the order of that row's dependency     *)
(* tokens, exactly the row's dependencies that are keys of the map, each   *)
(* with the mapped remote number; there is one Dependencies heading when   *)
(* some dependency resolves and none otherwise.                            *)
(***************************************************************************)
C4_DependenciesBlock ==
    Finished =>
        \A i \in DOMAIN rows :
            LET body == issues[ItemOf(i)].body
                res == Resolved(i)
            IN  /\ SelectSeq(body, LAMBDA l : l \in BlockedLines) =
                     [k \in DOMAIN res |->
                        "- [ ] Blocked by #" \o ToString(id_to_issue[res[k]])]
                /\ Count(body, "### Dependencies") =
                     (IF res # <<>> THEN 1 ELSE 0)

(***************************************************************************)
(* C5: at the end of a real run, for every created local id that some row  *)
(* names as ParentID, the parent's body holds one Subtasks heading and one *)
(* entry per child, in file order, with that child's own remote number and *)
(* own title; every child's body holds a Parent line with the parent's     *)
(* remote number.                                                          *)
(***************************************************************************)
C5_SubtasksBlock ==
    Finished =>
        \A p \in ParentIds \cap DOMAIN id_to_issue :
            LET body == issues[id_to_issue[p]].body
                kids == ChildrenOf(p)
            IN  /\ Count(body, "### Subtasks") = 1
                /\ SelectSeq(body, LAMBDA l : l \in SubtaskLines) =
                     [k \in DOMAIN kids |->
                        "- [ ] #" \o ToString(ItemOf(kids[k])) \o " -- " \o
                        rows[kids[k]].Title]
                /\ \A k \in DOMAIN kids :
                     Count(issues[ItemOf(kids[k])].body,
                           "**Parent:** #" \o ToString(id_to_issue[p])) = 1

(***************************************************************************)
(* C6: a failed create-label request never aborts the run; whatever subset *)
(* of the requests fails, one create request is issued for every missing   *)
(* label and the run proceeds to the creation of the issues.               *)
(***************************************************************************)
C6_LabelsAllTried ==
    /\ \A k \in Ops("create_label") :
           ~log[k].ok => ~(k = Len(log) /\ pc = "aborted")
    /\ (~dry_run /\ pc \in {"create", "done"} \cup LinkPcs) =>
           /\ {log[k].name : k \in Ops("create_label")} =
                 ToCreate(AllLabels(rows), existing)
           /\ Cardinality(Ops("create_label")) =
                 Cardinality(ToCreate(AllLabels(rows), existing))

C6_LabelFailureNonFatal ==
    /\ []C6_LabelsAllTried
    /\ [][pc = "labels_create" => pc' \in {"labels_create", "create"}]_vars

C6_Witness ==
    /\ OkOps("create_issue") # {}
    /\ \E k \in Ops("create_label") :
           /\ ~log[k].ok
           /\ \E m \in OkOps("create_label") : m > k

(***************************************************************************)
(* C7: a failed request other than create-label is the last request of the *)
(* run, the run is aborted at once, and the failing step leaves the remote *)
(* milestones, labels and issues as they were (nothing is rolled back).    *)
(***************************************************************************)
C7_FailedIsLast ==
    \A k \in DOMAIN log :
        (~log[k].ok /\ log[k].op # "create_label") =>
            (k = Len(log) /\ pc = "aborted")

C7_FatalAbortsAtOnce ==
    /\ []C7_FailedIsLast
    /\ [][pc' = "aborted" =>
            /\ issues' = issues
            /\ milestones' = milestones
            /\ labels' = labels]_vars

C7_Witness ==
    /\ pc = "aborted"
    /\ log[Len(log)].op = "update_issue"
    /\ Len(issues) >= 2
    /\ \E n \in DOMAIN issues :
           issues[n].body # Body(rows[issues[n].src], milestone)

(***************************************************************************)
(* C8: without external modification every step leaves each issue body a  *)
(* prefix of its next value, a successful update writes the stored body    *)
(* followed by non-empty new content, and the body an issue was created    *)
(* with stays a prefix of its body.                                        *)
(***************************************************************************)
C8_CreatedBodyIsPrefix ==
    extCount = 0 =>
        \A n \in DOMAIN issues :
            IsPrefix(Body(rows[issues[n].src], milestone), issues[n].body)

C8_AppendOnly ==
    /\ []C8_CreatedBodyIsPrefix
    /\ [][extCount' = 0 =>
            /\ \A n \in DOMAIN issues :
                   IsPrefix(issues[n].body, issues'[n].body)
            /\ (pc \in {"link_put", "sub_put"} /\ pc' \notin {pc, "aborted"}) =>
                   /\ issues'[target].body = StrCat(issues[target].body, extra)
                   /\ extra # <<"">>]_vars

C8_Witness ==
    /\ Finished
    /\ \E n \in DOMAIN issues :
           /\ Writes("link", n) # {}
           /\ Writes("sub", n) # {}

(***************************************************************************)
(* C9: when an external edit lands between the linker's read and its       *)
(* write, the successful write stores the body that was read followed by   *)
(* the new content, so the externally added lines are gone and the run     *)
(* does not abort.                                                         *)
(***************************************************************************)
C9_LastWriteWins ==
    [][(/\ pc \in {"link_put", "sub_put"}
        /\ Len(log') = Len(log) + 1
        /\ log'[Len(log')].ok
        /\ issues[target].body # current_body) =>
           /\ issues'[target].body = StrCat(current_body, extra)
           /\ \A l \in (ExtLines \cap Range(issues[target].body)) \
                         Range(current_body) :
                  l \notin Range(issues'[target].body)
           /\ pc' # "aborted"]_vars

C9_Witness ==
    /\ pc = "done"
    /\ extCount >= 1
    /\ \A k \in DOMAIN log : log[k].ok \/ log[k].op = "create_label"
    /\ \A n \in DOMAIN issues : "EXT1" \notin Range(issues[n].body)

(***************************************************************************)
(* C10: when every referenced local id is non-empty and names at most one  *)
(* row, then at the end of a real run each row with a non-empty annotation *)
(* has exactly one dependency/parent write, made to the issue created from *)
(* that row and carrying that row's created body followed by the           *)
(* annotation built from the row's own fields; the issues of the other     *)
(* rows have no dependency/parent write.                                   *)
(***************************************************************************)
C10_AnnotationOnOwnItem ==
    (Finished /\ ReferencedIdsUnique) =>
        \A i \in DOMAIN rows :
            LET ws == Writes("link", ItemOf(i))
            IN  IF OwnExtra(i) = <<"">>
                THEN ws = {}
                ELSE /\ Cardinality(ws) = 1
                     /\ \A k \in ws :
                            log[k].body =
                               StrCat(Body(rows[i], milestone), OwnExtra(i))

====
